---- MODULE Spec2Model ----
(***************************************************************************)
(* A model of the control core of the load-testing harness:                *)
(*   - the request pipeline of src/locust_tasks/base.py                    *)
(*     (RequestBuilder's setters and sendRequest, and                      *)
(*     BaseLocustUser.make_request), one logical request per virtual user; *)
(*   - the ResponseValidator of src/locust_tasks/base.py;                  *)
(*   - the load shape of src/load-shaping (Phase, LoadProfileFactory and   *)
(*     CustomLoadShape).                                                   *)
(* Retry delays are counted in whole seconds.  The load shape is modelled  *)
(* twice.  Where a claim is about which phase answers a tick, its times    *)
(* are counted in tenths of a second, so that the 0.1 s a spike takes is   *)
(* the integer 1, and a ramp is interpolated exactly.  Where a claim is    *)
(* about the numbers themselves, times are the binary64 numbers Python     *)
(* computes with, in seconds, every operation rounded as Python rounds it. *)
(***************************************************************************)
EXTENDS Integers, Sequences, FiniteSets, TLC

VARIABLES
    pc,            \* per user: where its request stands
    retry_config,  \* per user: RequestBuilder.retry_config
    attempt,       \* per user: the local variable attempt of sendRequest
    calls,         \* per user: how many times make_request was called
    waits,         \* per user: the time.sleep durations performed, in order
    only,          \* per user: the kind of outcome all attempts so far had,
                   \* "mixed" when they differ, "none" before the first
    last,          \* per user: what the transport did in the latest attempt
    result,        \* per user: what sendRequest returned, once it has
    stopped,       \* the run was stopped by the driver
    pc_at_stop,    \* per user: where its request stood when the run was
                   \* stopped, "none" before that
    slept_at_call, \* per user: who was in a backoff wait when its call began
    overlapped,    \* per user: another user completed an attempt begun
                   \* during this user's backoff wait
    phases,        \* LoadProfileFactory.phases
    current_time,  \* LoadProfileFactory.current_time
    run_time,      \* the elapsed time of the driver's latest tick
    last_tick,     \* what that tick returned
    factory_raised,  \* the exception the latest call of a directive of the
                     \* LoadProfileFactory raised, None when it returned
    profile,       \* what LoadProfileFactory.build() returned, None before
    validator_response,  \* ResponseValidator.response
    checks,        \* ResponseValidator._checks
    validated,     \* what validate() returned, when it was the latest call
    validator_raised, \* the exception the latest call on the validator
                      \* raised, None when it returned
    query_params,  \* per user: RequestBuilder.query_params
    query_string   \* per user: the query string of the path sendRequest
                   \* sent, None before

retry_vars == <<pc, retry_config, attempt, calls, waits, only, last, result,
                stopped, pc_at_stop, slept_at_call, overlapped>>

shape_vars == <<phases, current_time, run_time, last_tick>>

builder_vars == <<factory_raised, profile>>

validator_vars == <<validator_response, checks, validated, validator_raised>>

query_vars == <<query_params, query_string>>

vars == <<retry_vars, query_vars, shape_vars, builder_vars, validator_vars>>

\* what the steps of the retry loop, of the load shape, of the validator and
\* of the setters of the query parameters leave alone
retry_frame == <<query_vars, shape_vars, builder_vars, validator_vars>>
shape_frame == <<retry_vars, query_vars, builder_vars, validator_vars>>
validator_frame == <<retry_vars, query_vars, shape_vars, builder_vars>>
query_frame == <<retry_vars, shape_vars, builder_vars, validator_vars>>

-----------------------------------------------------------------------------
(* Bounds of the model. *)

\* the largest max_attempts a RetryConfig of the model carries
MaxAttempts == 3
\* the largest delay (seconds) a RetryConfig of the model carries
MaxDelay == 2
\* the most phases a profile of the model has
MaxPhases == 3
\* the longest duration (tenths of a second) a directive is called with
MaxDuration == 2

-----------------------------------------------------------------------------
(* The request pipeline: values. *)

Users == {"u1", "u2"}

\* Python's None
None == [none |-> TRUE]

\* RequestBuilder.__init__: expected_status = 200
expected_status == 200

\* RetryConfig.__post_init__: the default retry_on_status
retry_on_status == {500, 502, 503, 504}

\* RetryConfig(): max_attempts = 3, delay = 1.0, backoff_factor = 2.0
DefaultRetryConfig == [max_attempts |-> 3, delay |-> 1, backoff_factor |-> 2]

\* the RetryConfig values a caller passes to setRetryConfig
RetryConfigs ==
    [max_attempts : 0..MaxAttempts, delay : 1..MaxDelay, backoff_factor : {2, 3}]

\* a constructor that installs the default policy
InitialRetryConfig_Default == DefaultRetryConfig

\* RequestBuilder.__init__: retry_config = None
InitialRetryConfig == None

\* status codes the transport answers with
Statuses == {200, 404, 503}

\* response bodies the transport answers with
Texts == {"<html>", "[1, 2]", "{\"id\": 1}",
          "{\"status_code\": 503}", "{\"status_code\": 404}"}

\* decoded JSON values: an object (a Python dict) with its items, an array
\* (a Python list) with its items, null (Python's None)
Mapping(items) == [type |-> "dict", items |-> items]
Array(items) == [type |-> "list", items |-> items]
Null == [type |-> "null"]

\* the dicts make_request returns: with one key, and empty
Dict(key, value) == Mapping(key :> value)
EmptyDict == Mapping([key \in {} |-> 0])
List == Array(<<1, 2>>)

\* response.json(): the decoded body; None stands for json.JSONDecodeError
json(text) ==
    CASE text = "[1, 2]" -> List
      [] text = "{\"id\": 1}" -> Dict("id", 1)
      [] text = "{\"status_code\": 503}" -> Dict("status_code", 503)
      [] text = "{\"status_code\": 404}" -> Dict("status_code", 404)
      [] text = "{\"id\": 1, \"status\": \"active\"}"
            -> Mapping([id |-> 1, status |-> "active"])
      [] text = "[\"id\"]" -> Array(<<"id">>)
      [] text = "null" -> Null
      [] OTHER -> None

\* What one call of the transport does: it raises, or it answers with a
\* status and a body; check_raises: a function registered with addCheck
\* raises on this response.
TransportOutcomes ==
    [raises : {TRUE}, status_code : {0}, text : {""}, check_raises : {FALSE}]
    \cup
    [raises : {FALSE}, status_code : Statuses, text : Texts,
     check_raises : {FALSE}]
    \cup
    [raises : {FALSE}, status_code : {expected_status}, text : {"{\"id\": 1}"},
     check_raises : {TRUE}]

\* no attempt was made yet
NoOutcome ==
    [raises |-> FALSE, status_code |-> 0, text |-> "", check_raises |-> FALSE]

\* b ** e for e >= 0
RECURSIVE Pow(_, _)
Pow(b, e) == IF e <= 0 THEN 1 ELSE b * Pow(b, e - 1)

-----------------------------------------------------------------------------
(* The request pipeline: BaseLocustUser.make_request. *)

\* the kind of outcome of one attempt
Kind(o) ==
    IF o.raises THEN "exception"
    ELSE IF o.status_code = expected_status
         THEN IF o.check_raises THEN "check_exception" ELSE "expected"
         ELSE IF o.status_code \in retry_on_status THEN "retryable"
              ELSE "other"

\* One call of make_request when the transport does o.  raised: an exception
\* leaves make_request; value: what it returns otherwise.
make_request(o) ==
    IF o.raises
    THEN [raised |-> TRUE, value |-> None]
    ELSE IF o.status_code = expected_status
         THEN IF o.check_raises
              THEN [raised |-> TRUE, value |-> None]
              ELSE IF json(o.text) # None
                   THEN [raised |-> FALSE, value |-> json(o.text)]
                   ELSE [raised |-> FALSE,
                         value |-> Dict("raw_response", o.text)]
         ELSE [raised |-> FALSE, value |-> EmptyDict]

-----------------------------------------------------------------------------
(* The request pipeline: RequestBuilder. *)

\* setRetryConfig(config): config or RetryConfig()
setRetryConfig(u, config) ==
    /\ pc[u] = "build"
    /\ retry_config' = [retry_config EXCEPT ![u] =
            IF config = None THEN DefaultRetryConfig ELSE config]
    /\ UNCHANGED <<pc, attempt, calls, waits, only, last, result, stopped,
                   pc_at_stop, slept_at_call, overlapped, retry_frame>>

\* a dict where Python has a dict or None; the dict is the sequence of its
\* items <<key, value>> in insertion order
Optional(params) == [some |-> params]

\* str(value) of a parameter's value
str(value) == CASE value = 1 -> "1" [] value = 2 -> "2" [] OTHER -> ""

\* urlencode(params): the pairs key=value of the query string, in the order
\* of the dict's items
urlencode(params) ==
    [i \in DOMAIN params |-> <<params[i][1], str(params[i][2])>>]

\* the query string of full_path: urlencode(self.query_params) after a "?"
\* if self.query_params is neither None nor empty, no query string otherwise
QueryString(params) ==
    IF params = None THEN <<>> ELSE urlencode(params.some)

\* d[key] = value on the dict d
SetItem(d, key, value) ==
    IF \E i \in DOMAIN d : d[i][1] = key
    THEN [i \in DOMAIN d |-> IF d[i][1] = key THEN <<key, value>> ELSE d[i]]
    ELSE Append(d, <<key, value>>)

\* addQueryParams(params): self.query_params = params
addQueryParams(u, params) ==
    /\ pc[u] = "build"
    /\ query_params' = [query_params EXCEPT ![u] = Optional(params)]
    /\ UNCHANGED <<query_string, query_frame>>

\* addQueryParam(key, value)
addQueryParam(u, key, value) ==
    /\ pc[u] = "build"
    /\ query_params' = [query_params EXCEPT ![u] =
            Optional(SetItem(IF @ = None THEN <<>> ELSE @.some, key, value))]
    /\ UNCHANGED <<query_string, query_frame>>

\* sendRequest, up to the loop: full_path with its query string; attempt = 0
sendRequest(u) ==
    /\ pc[u] = "build"
    /\ pc' = [pc EXCEPT ![u] = "call"]
    /\ attempt' = [attempt EXCEPT ![u] = 0]
    /\ query_string' = [query_string EXCEPT ![u] =
            Optional(QueryString(query_params[u]))]
    /\ UNCHANGED <<retry_config, calls, waits, only, last, result, stopped,
                   pc_at_stop, slept_at_call, overlapped, query_params,
                   shape_vars, builder_vars, validator_vars>>

\* a call that needs something a waiting user holds
make_request_call_Serialized(u) ==
    /\ \A v \in Users \ {u} : pc[v] # "sleep"
    /\ pc[u] = "call"
    /\ pc' = [pc EXCEPT ![u] = "inflight"]
    /\ calls' = [calls EXCEPT ![u] = @ + 1]
    /\ slept_at_call' = [slept_at_call EXCEPT ![u] =
            {v \in Users \ {u} : pc[v] = "sleep"}]
    /\ UNCHANGED <<retry_config, attempt, waits, only, last, result, stopped,
                   pc_at_stop, overlapped, retry_frame>>

\* the loop calls self.user.make_request(...): the request is in flight
make_request_call(u) ==
    /\ pc[u] = "call"
    /\ pc' = [pc EXCEPT ![u] = "inflight"]
    /\ calls' = [calls EXCEPT ![u] = @ + 1]
    /\ slept_at_call' = [slept_at_call EXCEPT ![u] =
            {v \in Users \ {u} : pc[v] = "sleep"}]
    /\ UNCHANGED <<retry_config, attempt, waits, only, last, result, stopped,
                   pc_at_stop, overlapped, retry_frame>>

\* delay = self.retry_config.delay * (backoff_factor ** (attempt - 1))
BackoffDelay(cfg, a) == cfg.delay * Pow(cfg.backoff_factor, a - 1)

\* a test that takes a response without a status_code for a retryable one
NotRetryOnStatus_Missing(response) ==
    /\ "status_code" \in DOMAIN response.items
    /\ response.items["status_code"] \notin retry_on_status

\* response.get('status_code') not in self.retry_config.retry_on_status
NotRetryOnStatus(response) ==
    ~ (/\ "status_code" \in DOMAIN response.items
       /\ response.items["status_code"] \in retry_on_status)

\* the except clause: not self.retry_config or attempt >= max_attempts
Exhausted(cfg, a) == cfg = None \/ a >= cfg.max_attempts

\* return response
Returns(u, a, response) ==
    /\ pc' = [pc EXCEPT ![u] = "returned"]
    /\ attempt' = [attempt EXCEPT ![u] = a]
    /\ result' = [result EXCEPT ![u] = response]
    /\ UNCHANGED waits

\* raise
Raises(u, a) ==
    /\ pc' = [pc EXCEPT ![u] = "raised"]
    /\ attempt' = [attempt EXCEPT ![u] = a]
    /\ UNCHANGED <<waits, result>>

\* time.sleep(delay) begins, attempt being a
Sleeps(u, a, delay) ==
    /\ pc' = [pc EXCEPT ![u] = "sleep"]
    /\ attempt' = [attempt EXCEPT ![u] = a]
    /\ waits' = [waits EXCEPT ![u] = Append(@, delay)]
    /\ UNCHANGED result

\* an except clause that goes round again without counting the attempt
Except_Uncounted(u, a) ==
    IF Exhausted(retry_config[u], a)
    THEN Raises(u, a)
    ELSE Sleeps(u, a, BackoffDelay(retry_config[u], a + 1))

\* the except clause of the loop, entered with attempt = a
Except(u, a) ==
    IF Exhausted(retry_config[u], a)
    THEN Raises(u, a)
    ELSE Sleeps(u, a + 1, BackoffDelay(retry_config[u], a + 1))

\* make_request is over with outcome o: the rest of the loop's body
make_request_return(u, o) ==
    /\ pc[u] = "inflight"
    /\ only' = [only EXCEPT ![u] =
            IF @ \in {"none", Kind(o)} THEN Kind(o) ELSE "mixed"]
    /\ last' = [last EXCEPT ![u] = o]
    /\ overlapped' = [v \in Users |->
            overlapped[v] \/ (v \in slept_at_call[u] /\ pc[v] = "sleep")]
    /\ LET r == make_request(o)
           cfg == retry_config[u]
       IN  IF r.raised
           THEN Except(u, attempt[u])
           ELSE IF cfg = None
                THEN Returns(u, attempt[u], r.value)
                ELSE IF attempt[u] + 1 >= cfg.max_attempts
                     THEN Returns(u, attempt[u] + 1, r.value)
                     ELSE IF r.value.type # "dict"
                          \* response.get raises AttributeError in the try
                          THEN Except(u, attempt[u] + 1)
                          ELSE IF NotRetryOnStatus(r.value)
                               THEN Returns(u, attempt[u] + 1, r.value)
                               ELSE Sleeps(u, attempt[u] + 1,
                                        BackoffDelay(cfg, attempt[u] + 1))
    /\ UNCHANGED <<retry_config, calls, stopped, pc_at_stop, slept_at_call,
                   retry_frame>>

\* time.sleep(delay) returns: the loop goes round
sleep_return(u) ==
    /\ pc[u] = "sleep"
    /\ pc' = [pc EXCEPT ![u] = "call"]
    /\ slept_at_call' = [v \in Users |-> slept_at_call[v] \ {u}]
    /\ UNCHANGED <<retry_config, attempt, calls, waits, only, last, result,
                   stopped, pc_at_stop, overlapped, retry_frame>>

\* the driver stops the run (on_stop is what each user then runs)
on_stop ==
    /\ ~ stopped
    /\ stopped' = TRUE
    /\ pc_at_stop' = pc
    /\ UNCHANGED <<pc, retry_config, attempt, calls, waits, only, last,
                   result, slept_at_call, overlapped, retry_frame>>

-----------------------------------------------------------------------------
(* Specifications of the request pipeline. *)

InitRetry ==
    /\ pc = [u \in Users |-> "build"]
    /\ retry_config = [u \in Users |-> InitialRetryConfig]
    /\ attempt = [u \in Users |-> 0]
    /\ calls = [u \in Users |-> 0]
    /\ waits = [u \in Users |-> <<>>]
    /\ only = [u \in Users |-> "none"]
    /\ last = [u \in Users |-> NoOutcome]
    /\ result = [u \in Users |-> None]
    /\ stopped = FALSE
    /\ pc_at_stop = [u \in Users |-> "none"]
    /\ slept_at_call = [u \in Users |-> {}]
    /\ overlapped = [u \in Users |-> FALSE]

\* LoadProfileFactory.__init__; the driver has not ticked yet
InitShape ==
    /\ phases = <<>>
    /\ current_time = 0
    /\ run_time = 0
    /\ last_tick = None

\* no builder call was made yet
InitBuilder ==
    /\ factory_raised = None
    /\ profile = None

\* ResponseValidator.__init__(response)
InitValidator(responses) ==
    /\ validator_response \in responses
    /\ checks = <<>>
    /\ validated = None
    /\ validator_raised = None

\* the response of a validator nobody uses
NoResponse == [status_code |-> 0, headers |-> {}, text |-> ""]

\* RequestBuilder.__init__: query_params = None; nothing was sent
InitQuery ==
    /\ query_params = [u \in Users |-> None]
    /\ query_string = [u \in Users |-> None]

Init ==
    /\ InitRetry /\ InitQuery /\ InitShape /\ InitBuilder
    /\ InitValidator({NoResponse})

\* one step of user u, whose caller passes setRetryConfig one of configs
UserStep(u, configs) ==
    \/ \E config \in configs : setRetryConfig(u, config)
    \/ sendRequest(u)
    \/ make_request_call(u)
    \/ \E o \in TransportOutcomes : make_request_return(u, o)
    \/ sleep_return(u)

\* one virtual user issuing one request, and the driver
Next == on_stop \/ UserStep("u1", RetryConfigs \cup {None})

Spec == Init /\ [][Next]_vars

\* the keys and values of the query parameters callers set
ParamKeys == {"page", "limit", "q"}
ParamValues == {1, 2}

\* the dicts callers pass to addQueryParams
ParamDicts ==
    {<<>>, << <<"page", 1>> >>, << <<"limit", 2>>, <<"page", 2>> >>}

\* a caller setting query parameters on the builder and sending the request
NextQuery ==
    \/ \E key \in ParamKeys, value \in ParamValues :
            addQueryParam("u1", key, value)
    \/ \E params \in ParamDicts : addQueryParams("u1", params)
    \/ sendRequest("u1")

SpecQuery == Init /\ [][NextQuery]_vars

\* the virtual users issuing one request each, concurrently, with no retry
\* policy or with the default one (setRetryConfig())
NextUsers == \E u \in Users : UserStep(u, {None})

SpecUsers == Init /\ [][NextUsers]_vars

\* sendRequest is sequential code on a running thread: once it is called the
\* call of make_request is made, the transport answers or raises, and a
\* sleep returns
Progress ==
    \A u \in Users :
        /\ WF_vars(make_request_call(u))
        /\ WF_vars(\E o \in TransportOutcomes : make_request_return(u, o))
        /\ WF_vars(sleep_return(u))

\* Spec, with the steps of a request that was sent taken sooner or later
SpecProgress == Init /\ [][Next]_vars /\ Progress

-----------------------------------------------------------------------------
(* The load shape: Phase. *)

\* the arguments the directives are called with: the users of a spike, the
\* to_users of a ramp_up, the users of a steady phase, and the
\* <<from_users, to_users>> of a stress_ramp
SpikeUsers == {10}
RampTargets == {5, 10}
SteadyUsers == {5}
StressRamps == {<<5, 10>>, <<10, 5>>}

\* the durations the directives are called with, in tenths of a second;
\* the code takes any number, so a negative one and zero are among them
Durations == {0 - MaxDuration, 0, MaxDuration}

\* the elapsed times the driver ticks at, in tenths of a second
Times == 0..(MaxPhases * MaxDuration + 1)

\* an int where Python has an int or None
Some(n) == [some |-> n]

\* a spawn rate in users per second, as the fraction num / den
Rate(num, den) == [num |-> num, den |-> den]

\* Phase.__init__
Phase(start_time, duration, user_start, user_end, spawn_rate) ==
    [start_time |-> start_time, duration |-> duration,
     user_start |-> user_start, user_end |-> user_end,
     spawn_rate |-> spawn_rate]

\* int(n / d) for d > 0: truncation toward zero
IntOfQuotient(n, d) == IF n >= 0 THEN n \div d ELSE 0 - ((0 - n) \div d)

\* a phase that no longer answers at the instant it ends
user_count_at_HalfOpen(phase, t) ==
    IF t < phase.start_time \/ t >= phase.start_time + phase.duration
    THEN None
    ELSE Some(IntOfQuotient(
             phase.user_start * phase.duration
             + (phase.user_end - phase.user_start) * (t - phase.start_time),
             phase.duration))

\* Phase.user_count_at(t)
user_count_at(phase, t) ==
    IF t < phase.start_time \/ t > phase.start_time + phase.duration
    THEN None
    ELSE IF phase.duration = 0
         THEN Some(phase.user_end)
         ELSE Some(IntOfQuotient(
                  phase.user_start * phase.duration
                  + (phase.user_end - phase.user_start)
                    * (t - phase.start_time),
                  phase.duration))

-----------------------------------------------------------------------------
(* The load shape: LoadProfileFactory and CustomLoadShape.tick. *)

\* the duration of a spike's phase: 0.1 s
SpikeDuration == 1

\* spike(users)
spike(users) ==
    /\ Len(phases) < MaxPhases
    /\ phases' = Append(phases,
            Phase(current_time, SpikeDuration, users, users, Rate(users, 1)))
    /\ current_time' = current_time + SpikeDuration
    /\ UNCHANGED <<run_time, last_tick, shape_frame>>

\* a ramp that starts from 0 whatever came before
InheritedUsers_Zero(ps) == 0

\* from_users = self.phases[-1].user_end if self.phases else 0
InheritedUsers(ps) == IF Len(ps) > 0 THEN ps[Len(ps)].user_end ELSE 0

\* ramp_up(to_users, duration); the division by a duration of 0 raises
\* ZeroDivisionError before anything is appended
ramp_up(to_users, duration) ==
    /\ Len(phases) < MaxPhases
    /\ IF duration = 0
       THEN UNCHANGED <<phases, current_time>>
       ELSE /\ phases' = Append(phases,
                    Phase(current_time, duration, InheritedUsers(phases),
                          to_users,
                          Rate(10 * (to_users - InheritedUsers(phases)),
                               duration)))
            /\ current_time' = current_time + duration
    /\ UNCHANGED <<run_time, last_tick, shape_frame>>

\* a steady phase that leaves the cursor where it was
steady_users_NoAdvance(users, duration) ==
    /\ Len(phases) < MaxPhases
    /\ phases' = Append(phases,
            Phase(current_time, duration, users, users, Rate(1, 1)))
    /\ UNCHANGED <<current_time, run_time, last_tick, shape_frame>>

\* steady_users(users, duration)
steady_users(users, duration) ==
    /\ Len(phases) < MaxPhases
    /\ phases' = Append(phases,
            Phase(current_time, duration, users, users, Rate(1, 1)))
    /\ current_time' = current_time + duration
    /\ UNCHANGED <<run_time, last_tick, shape_frame>>

\* stress_ramp(from_users, to_users, duration); the division by a duration
\* of 0 raises ZeroDivisionError before anything is appended
stress_ramp(from_users, to_users, duration) ==
    /\ Len(phases) < MaxPhases
    /\ IF duration = 0
       THEN UNCHANGED <<phases, current_time>>
       ELSE /\ phases' = Append(phases,
                    Phase(current_time, duration, from_users, to_users,
                          Rate(10 * (to_users - from_users), duration)))
            /\ current_time' = current_time + duration
    /\ UNCHANGED <<run_time, last_tick, shape_frame>>

\* the loop of tick over self.phases, from the i-th phase on
RECURSIVE TickFrom(_, _, _)
TickFrom(ps, i, t) ==
    IF i > Len(ps)
    THEN None
    ELSE IF user_count_at(ps[i], t) # None
         THEN [user_count |-> user_count_at(ps[i], t).some,
               spawn_rate |-> ps[i].spawn_rate]
         ELSE TickFrom(ps, i + 1, t)

\* a scan in which the last phase that answers wins
RECURSIVE TickBack(_, _, _)
TickBack(ps, i, t) ==
    IF i < 1
    THEN None
    ELSE IF user_count_at(ps[i], t) # None
         THEN [user_count |-> user_count_at(ps[i], t).some,
               spawn_rate |-> ps[i].spawn_rate]
         ELSE TickBack(ps, i - 1, t)

Tick_LastMatch(ps, t) == TickBack(ps, Len(ps), t)

\* CustomLoadShape.tick() when get_run_time() is t, on the phases ps
Tick(ps, t) == TickFrom(ps, 1, t)

\* the driver calls tick() at the elapsed time t, which never decreases
tick(t) ==
    /\ t >= run_time
    /\ run_time' = t
    /\ last_tick' = Tick(phases, t)
    /\ UNCHANGED <<phases, current_time, shape_frame>>

\* a caller building a profile, and the driver ticking
NextShape ==
    \/ \E users \in SpikeUsers : spike(users)
    \/ \E to_users \in RampTargets, duration \in Durations :
            ramp_up(to_users, duration)
    \/ \E users \in SteadyUsers, duration \in Durations :
            steady_users(users, duration)
    \/ \E ramp \in StressRamps, duration \in Durations :
            stress_ramp(ramp[1], ramp[2], duration)
    \/ \E t \in Times : tick(t)

SpecShape == Init /\ [][NextShape]_vars

-----------------------------------------------------------------------------
(* Python's float: binary64 arithmetic on naturals of any size. *)

\* a natural number is the sequence of its digits in this radix, the least
\* significant first and the most significant not 0; <<>> is 0
Radix == 32768
RadixBits == 15

\* the significand of a binary64 number has 53 bits
Precision == 53

Min(a, b) == IF a < b THEN a ELSE b
Max(a, b) == IF a > b THEN a ELSE b
Abs(n) == IF n < 0 THEN 0 - n ELSE n

RECURSIVE Pow2(_)
Pow2(n) == IF n = 0 THEN 1 ELSE 2 * Pow2(n - 1)

\* a without its most significant zeros
RECURSIVE Trim(_)
Trim(a) ==
    IF a = <<>> THEN <<>>
    ELSE IF a[Len(a)] = 0 THEN Trim(SubSeq(a, 1, Len(a) - 1)) ELSE a

\* the digits of n >= 0
RECURSIVE BigOf(_)
BigOf(n) == IF n = 0 THEN <<>> ELSE <<n % Radix>> \o BigOf(n \div Radix)

\* the number whose digits a are, when it is small
RECURSIVE IntOf(_)
IntOf(a) == IF a = <<>> THEN 0 ELSE a[1] + Radix * IntOf(Tail(a))

Digit(a) == IF a = <<>> THEN 0 ELSE a[1]
Rest(a) == IF a = <<>> THEN <<>> ELSE Tail(a)

\* a + b + c, c a carry
RECURSIVE AddC(_, _, _)
AddC(a, b, c) ==
    IF a = <<>> /\ b = <<>>
    THEN IF c = 0 THEN <<>> ELSE <<c>>
    ELSE LET x == Digit(a) + Digit(b) + c
         IN  <<x % Radix>> \o AddC(Rest(a), Rest(b), x \div Radix)

BigAdd(a, b) == AddC(a, b, 0)

\* a - b - c, c a borrow, for a >= b + c
RECURSIVE SubB(_, _, _)
SubB(a, b, c) ==
    IF a = <<>> /\ b = <<>>
    THEN <<>>
    ELSE LET x == Digit(a) - Digit(b) - c
         IN  IF x < 0
             THEN <<x + Radix>> \o SubB(Rest(a), Rest(b), 1)
             ELSE <<x>> \o SubB(Rest(a), Rest(b), 0)

\* a - b for a >= b
BigSub(a, b) == Trim(SubB(a, b, 0))

\* -1, 0, 1 as the digits of a up to the i-th make less than, as much as,
\* more than those of b, a and b being of the same length
RECURSIVE CmpFrom(_, _, _)
CmpFrom(a, b, i) ==
    IF i = 0 THEN 0
    ELSE IF a[i] < b[i] THEN 0 - 1
    ELSE IF a[i] > b[i] THEN 1
    ELSE CmpFrom(a, b, i - 1)

\* -1, 0, 1 as a < b, a = b, a > b
BigCmp(a, b) ==
    IF Len(a) < Len(b) THEN 0 - 1
    ELSE IF Len(a) > Len(b) THEN 1
    ELSE CmpFrom(a, b, Len(a))

\* a * d + c for a digit d > 0 and a carry c
RECURSIVE MulC(_, _, _)
MulC(a, d, c) ==
    IF a = <<>>
    THEN IF c = 0 THEN <<>> ELSE <<c>>
    ELSE LET x == a[1] * d + c
         IN  <<x % Radix>> \o MulC(Tail(a), d, x \div Radix)

\* a * d for a digit d
MulSmall(a, d) == IF d = 0 THEN <<>> ELSE MulC(a, d, 0)

RECURSIVE BigMul(_, _)
BigMul(a, b) ==
    IF a = <<>> \/ b = <<>> THEN <<>>
    ELSE BigAdd(MulSmall(a, b[1]), Trim(<<0>> \o BigMul(a, Tail(b))))

RECURSIVE Zeros(_)
Zeros(n) == IF n = 0 THEN <<>> ELSE <<0>> \o Zeros(n - 1)

\* a * 2^n
ShiftLeft(a, n) ==
    IF a = <<>> THEN <<>>
    ELSE Zeros(n \div RadixBits) \o MulSmall(a, Pow2(n % RadixBits))

\* the digits of a up to the i-th divided by the digit d, r being the
\* remainder of the digits above
RECURSIVE DivSmallFrom(_, _, _, _)
DivSmallFrom(a, d, i, r) ==
    IF i = 0 THEN <<>>
    ELSE LET x == r * Radix + a[i]
         IN  DivSmallFrom(a, d, i - 1, x % d) \o <<x \div d>>

\* a \div d for a digit d > 0
DivSmall(a, d) == Trim(DivSmallFrom(a, d, Len(a), 0))

\* a \div 2^n
ShiftRight(a, n) ==
    IF n \div RadixBits >= Len(a) THEN <<>>
    ELSE DivSmall(SubSeq(a, n \div RadixBits + 1, Len(a)),
                  Pow2(n % RadixBits))

RECURSIVE SmallBitLen(_)
SmallBitLen(n) == IF n = 0 THEN 0 ELSE 1 + SmallBitLen(n \div 2)

\* the number of bits of a
BitLen(a) ==
    IF a = <<>> THEN 0
    ELSE RadixBits * (Len(a) - 1) + SmallBitLen(a[Len(a)])

\* bit i of a, bit 0 being the least significant
Bit(a, i) ==
    IF i \div RadixBits >= Len(a) THEN 0
    ELSE (a[i \div RadixBits + 1] \div Pow2(i % RadixBits)) % 2

\* the digit d with b * d <= r < b * (d + 1), known to be in lo..(hi - 1)
RECURSIVE FindDigit(_, _, _, _)
FindDigit(r, b, lo, hi) ==
    IF hi - lo <= 1 THEN lo
    ELSE LET mid == (lo + hi) \div 2
         IN  IF BigCmp(MulSmall(b, mid), r) <= 0
             THEN FindDigit(r, b, mid, hi)
             ELSE FindDigit(r, b, lo, mid)

\* long division by b of the digits of a from the i-th down, q and r being
\* the quotient and the remainder of the digits above:
\* <<quotient, remainder>>
RECURSIVE DivModFrom(_, _, _, _, _)
DivModFrom(a, b, i, q, r) ==
    IF i = 0 THEN <<q, r>>
    ELSE LET r2 == Trim(<<a[i]>> \o r)
             d == FindDigit(r2, b, 0, Radix)
         IN  DivModFrom(a, b, i - 1, Trim(<<d>> \o q),
                        BigSub(r2, MulSmall(b, d)))

\* <<a \div b, a % b>> for b > 0
BigDivMod(a, b) == DivModFrom(a, b, Len(a), <<>>, <<>>)

RECURSIVE TrailingZeros(_)
TrailingZeros(n) == IF n % 2 = 1 THEN 0 ELSE 1 + TrailingZeros(n \div 2)

\* The number (-1)^neg * m * 2^e, as the one record that stands for it:
\* m is odd, or the number is 0.
RECURSIVE Canon(_, _, _)
Canon(neg, m, e) ==
    IF m = <<>> THEN [neg |-> FALSE, m |-> <<>>, e |-> 0]
    ELSE IF m[1] = 0 THEN Canon(neg, Tail(m), e + RadixBits)
    ELSE LET z == TrailingZeros(m[1])
         IN  [neg |-> neg, m |-> ShiftRight(m, z), e |-> e + z]

\* the binary64 number nearest to (-1)^neg * m * 2^e, or to a little more
\* than that in magnitude when sticky; of two nearest, the even one
Round(neg, m, e, sticky) ==
    IF BitLen(m) <= Precision
    THEN Canon(neg, m, e)
    ELSE LET n == BitLen(m) - Precision
             q == ShiftRight(m, n)
             r == BigSub(m, ShiftLeft(q, n))
             c == BigCmp(r, ShiftLeft(<<1>>, n - 1))
             up == c > 0 \/ (c = 0 /\ (sticky \/ Bit(q, 0) = 1))
         IN  Canon(neg, IF up THEN BigAdd(q, <<1>>) ELSE q, e + n)

\* float(n) for an int n
Float(n) == Canon(n < 0, BigOf(Abs(n)), 0)

Zero == Float(0)

\* x + y, exactly
ExactAdd(x, y) ==
    LET e == Min(x.e, y.e)
        mx == ShiftLeft(x.m, x.e - e)
        my == ShiftLeft(y.m, y.e - e)
        c == BigCmp(mx, my)
    IN  IF x.neg = y.neg
        THEN [neg |-> x.neg, m |-> BigAdd(mx, my), e |-> e]
        ELSE IF c >= 0
             THEN [neg |-> x.neg /\ c # 0, m |-> BigSub(mx, my), e |-> e]
             ELSE [neg |-> y.neg, m |-> BigSub(my, mx), e |-> e]

\* -x
FloatNeg(x) == [x EXCEPT !.neg = (~ x.neg) /\ x.m # <<>>]

\* x + y
FloatAdd(x, y) == LET s == ExactAdd(x, y) IN Round(s.neg, s.m, s.e, FALSE)

\* x - y
FloatSub(x, y) == FloatAdd(x, FloatNeg(y))

\* x < y
FloatLess(x, y) == LET s == ExactAdd(x, FloatNeg(y)) IN s.neg /\ s.m # <<>>

\* x * y
FloatMul(x, y) ==
    Round(x.neg # y.neg, BigMul(x.m, y.m), x.e + y.e, FALSE)

\* x / y for y # 0
FloatDiv(x, y) ==
    LET s == Max(0, Precision + 2 + BitLen(y.m) - BitLen(x.m))
        qr == BigDivMod(ShiftLeft(x.m, s), y.m)
    IN  Round(x.neg # y.neg, qr[1], x.e - y.e - s, qr[2] # <<>>)

\* int(x): toward zero
FloatInt(x) ==
    LET a == IF x.e >= 0 THEN IntOf(ShiftLeft(x.m, x.e))
             ELSE IntOf(ShiftRight(x.m, 0 - x.e))
    IN  IF x.neg THEN 0 - a ELSE a

\* the literal 0.1
Tenth == FloatDiv(Float(1), Float(10))

-----------------------------------------------------------------------------
(* The load shape in Python's arithmetic: times are binary64 numbers of     *)
(* seconds, user counts are ints.                                           *)

\* a phase that is at its user_end from its start on
Phase_user_count_at_Jump(phase, t) ==
    IF \/ FloatLess(t, phase.start_time)
       \/ FloatLess(FloatAdd(phase.start_time, phase.duration), t)
    THEN None
    ELSE Some(phase.user_end)

\* Phase.user_count_at(t)
Phase_user_count_at(phase, t) ==
    IF \/ FloatLess(t, phase.start_time)
       \/ FloatLess(FloatAdd(phase.start_time, phase.duration), t)
    THEN None
    ELSE IF phase.duration = Zero
         THEN Some(phase.user_end)
         ELSE LET progress ==
                      FloatDiv(FloatSub(t, phase.start_time), phase.duration)
              IN  Some(FloatInt(FloatAdd(
                      Float(phase.user_start),
                      FloatMul(Float(phase.user_end - phase.user_start),
                               progress))))

\* LoadProfileFactory.__init__; raised: the exception the latest call on
\* the factory raised
NewFactory == [phases |-> <<>>, current_time |-> Zero, raised |-> None]

\* self.phases.append(phase); self.current_time += duration; return self
Appended(f, phase, duration) ==
    [phases |-> Append(f.phases, phase),
     current_time |-> FloatAdd(f.current_time, duration),
     raised |-> None]

\* an exception of the class name
Exception(name) == [exception |-> name]

\* the call raises exception and leaves the factory as it was
Raised(f, exception) == [f EXCEPT !.raised = exception]

\* a spike whose phase lasts no time, the cursor moving on all the same
LoadProfileFactory_spike_Instant(f, users) ==
    Appended(f, Phase(f.current_time, Zero, users, users, Float(users)),
             Tenth)

\* spike(users) on the factory f
LoadProfileFactory_spike(f, users) ==
    Appended(f, Phase(f.current_time, Tenth, users, users, Float(users)),
             Tenth)

\* ramp_up(to_users, duration) on the factory f; the division by a duration
\* of 0 raises ZeroDivisionError before anything is appended
LoadProfileFactory_ramp_up(f, to_users, duration) ==
    LET from_users == InheritedUsers(f.phases)
    IN  IF Float(duration) = Zero
        THEN Raised(f, Exception("ZeroDivisionError"))
        ELSE Appended(f,
                 Phase(f.current_time, Float(duration), from_users, to_users,
                       FloatDiv(Float(to_users - from_users),
                                Float(duration))),
                 Float(duration))

\* steady_users(users, duration) on the factory f
LoadProfileFactory_steady_users(f, users, duration) ==
    Appended(f, Phase(f.current_time, Float(duration), users, users, Float(1)),
             Float(duration))

\* stress_ramp(from_users, to_users, duration) on the factory f
LoadProfileFactory_stress_ramp(f, from_users, to_users, duration) ==
    IF Float(duration) = Zero
    THEN Raised(f, Exception("ZeroDivisionError"))
    ELSE Appended(f,
             Phase(f.current_time, Float(duration), from_users, to_users,
                   FloatDiv(Float(to_users - from_users), Float(duration))),
             Float(duration))

\* the constants of LoadShapeTest.py
INITIAL_SPIKE_USERS == 10
RAMP_UP_USERS == 20
RAMP_UP_DURATION == 10
STEADY_USERS == 5
STEADY_DURATION == 5
STRESS_START_USERS == 5
STRESS_END_USERS == 15
STRESS_DURATION == 10

\* CustomLoadShape.__init__: the factory its profile comes from
CustomFactory ==
    LoadProfileFactory_stress_ramp(
        LoadProfileFactory_steady_users(
            LoadProfileFactory_ramp_up(
                LoadProfileFactory_spike(NewFactory, INITIAL_SPIKE_USERS),
                RAMP_UP_USERS, RAMP_UP_DURATION),
            STEADY_USERS, STEADY_DURATION),
        STRESS_START_USERS, STRESS_END_USERS, STRESS_DURATION)

\* the factory whose fields the variables are, at a call
Factory ==
    [phases |-> phases, current_time |-> current_time, raised |-> None]

\* a list object: the one the field phases of the factory holds
SelfPhases == [list |-> "LoadProfileFactory.phases"]

\* what the list object ref holds
Content(ref) == IF ref = SelfPhases THEN phases ELSE <<>>

\* a caller's call of a directive, which leaves the factory as f
Directive(f) ==
    /\ Len(phases) < MaxPhases
    /\ phases' = f.phases
    /\ current_time' = f.current_time
    /\ factory_raised' = f.raised
    /\ UNCHANGED <<run_time, last_tick, profile, retry_vars, query_vars,
                   validator_vars>>

CallSpike(users) == Directive(LoadProfileFactory_spike(Factory, users))

CallRampUp(to_users, duration) ==
    Directive(LoadProfileFactory_ramp_up(Factory, to_users, duration))

CallSteadyUsers(users, duration) ==
    Directive(LoadProfileFactory_steady_users(Factory, users, duration))

CallStressRamp(from_users, to_users, duration) ==
    Directive(LoadProfileFactory_stress_ramp(Factory, from_users, to_users,
                                             duration))

\* build(): return self.phases, the list the factory goes on appending to
CallBuild ==
    /\ profile' = SelfPhases
    /\ factory_raised' = None
    /\ UNCHANGED <<shape_vars, retry_vars, query_vars, validator_vars>>

\* CustomLoadShape.__init__: a new factory, the four directives, build()
CustomLoadShape_init ==
    /\ phases = <<>>
    /\ current_time = Zero
    /\ profile = None
    /\ phases' = CustomFactory.phases
    /\ current_time' = CustomFactory.current_time
    /\ factory_raised' = CustomFactory.raised
    /\ profile' = SelfPhases
    /\ UNCHANGED <<run_time, last_tick, retry_vars, query_vars,
                   validator_vars>>

\* the loop of CustomLoadShape.tick over self.phases, from the i-th phase
\* on, run_time being t
RECURSIVE TickLoop(_, _, _)
TickLoop(ps, i, t) ==
    IF i > Len(ps)
    THEN None
    ELSE LET user_count == Phase_user_count_at(ps[i], t)
         IN  IF user_count # None
             THEN [user_count |-> user_count.some,
                   spawn_rate |-> ps[i].spawn_rate]
             ELSE TickLoop(ps, i + 1, t)

\* CustomLoadShape.tick() when get_run_time() is t
CustomLoadShape_tick(t) ==
    /\ ~ FloatLess(t, run_time)
    /\ run_time' = t
    /\ last_tick' = TickLoop(phases, 1, t)
    /\ UNCHANGED <<phases, current_time, shape_frame>>

\* the calls of ramp_up a caller makes besides those of CustomLoadShape:
\* <<to_users, duration>>
RampUpCalls == {<<RAMP_UP_USERS, RAMP_UP_DURATION>>, <<90, RAMP_UP_DURATION>>}

\* the elapsed times the driver ticks at, in seconds
RunTimes == {Float(0), Float(5), Float(7)}

InitSeconds ==
    /\ phases = <<>>
    /\ current_time = Zero
    /\ run_time = Zero
    /\ last_tick = None

\* the driver has not had an answer
Unticked == run_time = Zero /\ last_tick = None

\* callers building profiles with the arguments of LoadShapeTest.py and
\* another ramp, CustomLoadShape building its own, and then the driver
\* ticking
NextSeconds ==
    \/ Unticked /\ CallSpike(INITIAL_SPIKE_USERS)
    \/ Unticked /\ \E call \in RampUpCalls : CallRampUp(call[1], call[2])
    \/ Unticked /\ CallSteadyUsers(STEADY_USERS, STEADY_DURATION)
    \/ Unticked /\ CallStressRamp(STRESS_START_USERS, STRESS_END_USERS,
                                  STRESS_DURATION)
    \/ CustomLoadShape_init
    \/ \E t \in RunTimes : CustomLoadShape_tick(t)

\* a new factory, with times in seconds, and nothing else begun
InitFactory ==
    /\ InitRetry /\ InitQuery /\ InitSeconds /\ InitBuilder
    /\ InitValidator({NoResponse})

SpecSeconds == InitFactory /\ [][NextSeconds]_vars

\* the durations a caller passes to the directives, in seconds: the code
\* takes any number
BuilderDurations == {0 - RAMP_UP_DURATION, 0, RAMP_UP_DURATION}

\* a caller using a factory: directives and build(), in any order
NextBuilder ==
    \/ CallSpike(INITIAL_SPIKE_USERS)
    \/ \E duration \in BuilderDurations : CallRampUp(RAMP_UP_USERS, duration)
    \/ \E duration \in BuilderDurations :
            CallSteadyUsers(STEADY_USERS, duration)
    \/ \E duration \in BuilderDurations :
            CallStressRamp(STRESS_START_USERS, STRESS_END_USERS, duration)
    \/ CallBuild

SpecBuilder == InitFactory /\ [][NextBuilder]_vars

-----------------------------------------------------------------------------
(* The ResponseValidator of src/locust_tasks/base.py.  A response is an     *)
(* HTTP response: its status_code, the names of its headers, and the text    *)
(* its json() decodes.                                                       *)

\* the most outcomes a validator of the model records
MaxChecks == 3

\* response bodies a validator is given
ValidatorTexts == {"{\"id\": 1, \"status\": \"active\"}", "<html>", "null",
                   "[\"id\"]"}

\* the responses a validator is constructed on
Responses ==
    [status_code : {expected_status, 404}, headers : {{"Content-Type"}},
     text : ValidatorTexts]

\* the arguments callers pass to status_is, has_header and json_contains
StatusArguments == {expected_status, 201}
HeaderArguments == {"Content-Type", "X-Request-Id"}
KeyArguments == {"id", "name"}

\* the arguments callers pass to json_matches: dicts, as the sequence of
\* <<key, value>> that items() goes through
Schemas ==
    {<< <<"status", "active">> >>,
     << <<"status", "inactive">> >>,
     << <<"name", "x">> >>,
     << <<"id", 1>>, <<"status", "active">> >>}

\* any(check[1] for check in checks[i..])
RECURSIVE all_Any(_, _)
all_Any(cs, i) == IF i > Len(cs) THEN FALSE ELSE cs[i][2] \/ all_Any(cs, i + 1)

\* all(check[1] for check in checks[i..])
RECURSIVE all(_, _)
all(cs, i) == IF i > Len(cs) THEN TRUE ELSE cs[i][2] /\ all(cs, i + 1)

\* a predicate appends (name, outcome) to self._checks and returns self
Records(name, outcome) ==
    /\ checks' = Append(checks, <<name, outcome>>)
    /\ validated' = None
    /\ validator_raised' = None
    /\ UNCHANGED <<validator_response, validator_frame>>

\* a predicate raises exception before it appends anything
ValidatorRaises(exception) ==
    /\ validator_raised' = exception
    /\ validated' = None
    /\ UNCHANGED <<validator_response, checks, validator_frame>>

\* status_is(status)
status_is(status) ==
    /\ Len(checks) < MaxChecks
    /\ Records("status", validator_response.status_code = status)

\* has_header(header)
has_header(header) ==
    /\ Len(checks) < MaxChecks
    /\ Records("header", header \in validator_response.headers)

\* key in data, for a decoded body data: raised when data is not a
\* container (TypeError), value otherwise
In(key, data) ==
    CASE data.type = "dict" ->
            [raised |-> FALSE, value |-> key \in DOMAIN data.items]
      [] data.type = "list" ->
            [raised |-> FALSE,
             value |-> \E i \in DOMAIN data.items : data.items[i] = key]
      [] OTHER -> [raised |-> TRUE, value |-> FALSE]

\* json_contains(key): only json.JSONDecodeError is caught
json_contains(key) ==
    /\ Len(checks) < MaxChecks
    /\ LET data == json(validator_response.text)
       IN  IF data = None
           THEN Records("json_key", FALSE)
           ELSE IF In(key, data).raised
                THEN ValidatorRaises(Exception("TypeError"))
                ELSE Records("json_key", In(key, data).value)

\* the loop of json_matches over schema.items(), from the i-th item on:
\* raised when key in data or data[key] raises (TypeError), value: the
\* outcome recorded otherwise
RECURSIVE SchemaLoop(_, _, _)
SchemaLoop(data, schema, i) ==
    IF i > Len(schema)
    THEN [raised |-> FALSE, value |-> TRUE]
    ELSE LET key == schema[i][1]
             value == schema[i][2]
         IN  IF In(key, data).raised
             THEN [raised |-> TRUE, value |-> FALSE]
             ELSE IF ~ In(key, data).value
                  THEN [raised |-> FALSE, value |-> FALSE]
                  ELSE IF data.type # "dict"
                       \* data[key] on a list, key being a str
                       THEN [raised |-> TRUE, value |-> FALSE]
                       ELSE IF data.items[key] # value
                            THEN [raised |-> FALSE, value |-> FALSE]
                            ELSE SchemaLoop(data, schema, i + 1)

\* json_matches(schema): only json.JSONDecodeError is caught
json_matches(schema) ==
    /\ Len(checks) < MaxChecks
    /\ LET data == json(validator_response.text)
       IN  IF data = None
           THEN Records("json_schema", FALSE)
           ELSE IF SchemaLoop(data, schema, 1).raised
                THEN ValidatorRaises(Exception("TypeError"))
                ELSE Records("json_schema", SchemaLoop(data, schema, 1).value)

\* validate()
validate ==
    /\ validated' = Some(all(checks, 1))
    /\ validator_raised' = None
    /\ UNCHANGED <<validator_response, checks, validator_frame>>

\* a caller chaining predicates on a validator and asking for the verdict
NextValidator ==
    \/ \E status \in StatusArguments : status_is(status)
    \/ \E header \in HeaderArguments : has_header(header)
    \/ \E key \in KeyArguments : json_contains(key)
    \/ \E schema \in Schemas : json_matches(schema)
    \/ validate

\* a validator constructed on one of the responses, and nothing else begun
InitResponseValidator ==
    /\ InitRetry /\ InitQuery /\ InitShape /\ InitBuilder
    /\ InitValidator(Responses)

SpecValidator == InitResponseValidator /\ [][NextValidator]_vars

-----------------------------------------------------------------------------
(* The retry loop: claims C1 to C7. *)

Finished(u) == pc[u] \in {"returned", "raised"}

HasPolicy(u) == retry_config[u] # None

\* the kind of outcome of u's latest attempt
LastKind(u) == IF last[u] = NoOutcome THEN "none" ELSE Kind(last[u])

\* C1: with max_attempts = N >= 1 and a transport that answers every attempt
\* with a retryable status other than the expected one, a finished
\* sendRequest has made exactly N attempts with a wait between consecutive
\* ones and has returned; with the default policy (3, 1.0, 2.0) the waits
\* are 1.0 and 2.0.
C1_RetryableStatusUsesAllAttempts ==
    \A u \in Users :
        (/\ Finished(u)
         /\ HasPolicy(u)
         /\ only[u] = "retryable")
        => (retry_config[u].max_attempts >= 1
            => /\ pc[u] = "returned"
               /\ calls[u] = retry_config[u].max_attempts
               /\ Len(waits[u]) = calls[u] - 1
               /\ (retry_config[u] = DefaultRetryConfig
                   => waits[u] = <<1, 2>>))

\* C2: with max_attempts = N >= 1 and a transport that raises on every
\* attempt, a finished sendRequest has made exactly N attempts and has
\* raised.
C2_TransportErrorUsesAllAttempts ==
    \A u \in Users :
        (/\ Finished(u)
         /\ HasPolicy(u)
         /\ only[u] = "exception")
        => (retry_config[u].max_attempts >= 1
            => /\ pc[u] = "raised"
               /\ calls[u] = retry_config[u].max_attempts)

\* C3: while the builder's retry_config is as the constructor left it,
\* sendRequest makes at most one attempt and never waits; once the attempt
\* is over the request is finished: an exception is propagated, anything
\* else make_request returned is returned as it is.
C3_NoPolicySingleAttempt ==
    \A u \in Users :
        retry_config[u] = InitialRetryConfig
        => /\ calls[u] <= 1
           /\ waits[u] = <<>>
           /\ (calls[u] = 1 /\ pc[u] # "inflight"
               => IF make_request(last[u]).raised
                  THEN pc[u] = "raised"
                  ELSE /\ pc[u] = "returned"
                       /\ result[u] = make_request(last[u]).value)

\* C3's case: without a policy an attempt failed with an exception, which
\* was propagated after that single attempt.
C3_Witness ==
    \E u \in Users :
        /\ retry_config[u] = InitialRetryConfig
        /\ pc[u] = "raised"
        /\ calls[u] = 1

\* C4: the wait after the k-th attempt of a request lasts
\* delay * backoff_factor^(k-1).
C4_BackoffIsExponentialInAttempts ==
    \A u \in Users :
        \A k \in 1..Len(waits[u]) :
            waits[u][k] = retry_config[u].delay
                          * Pow(retry_config[u].backoff_factor, k - 1)

\* C5: an attempt answered with a status that is neither the expected one
\* nor a retryable one ends the request: it is the last attempt, no wait
\* follows it, and sendRequest has returned (the empty mapping of
\* make_request) without raising.
C5_OtherStatusIsTerminal ==
    \A u \in Users :
        LastKind(u) = "other"
        => /\ pc[u] = "returned"
           /\ Len(waits[u]) = calls[u] - 1
           /\ result[u] = EmptyDict

\* C5's case: under a policy that allows further attempts, an attempt was
\* answered with such a status and the request is over.
C5_Witness ==
    \E u \in Users :
        /\ HasPolicy(u)
        /\ retry_config[u].max_attempts >= 2
        /\ LastKind(u) = "other"
        /\ calls[u] = 1
        /\ pc[u] = "returned"

\* C6: a retry loop that was in an attempt or in a backoff wait when the
\* run was stopped starts no further attempt.
C6_NoAttemptAfterStop ==
    [][\A u \in Users :
          stopped /\ pc_at_stop[u] \in {"inflight", "sleep"}
          => calls'[u] = calls[u]]_vars

-----------------------------------------------------------------------------
(* The load shape: claims C8 to C10. *)

\* the end of the last phase; it is the sum of the durations of all phases
LastEnd(ps) ==
    IF Len(ps) = 0 THEN 0
    ELSE ps[Len(ps)].start_time + ps[Len(ps)].duration

\* what tick returns when phase is the one that answers at t
Answer(phase, t) ==
    [user_count |-> user_count_at(phase, t).some,
     spawn_rate |-> phase.spawn_rate]

\* phase answers at t
Covers(phase, t) == user_count_at(phase, t) # None

\* C8: tick returns None for every elapsed time greater than the end of the
\* last phase, so that once it has returned None it returns None for every
\* later elapsed time.
C8_NoneAfterLastPhase ==
    /\ \A t \in Times : t > LastEnd(phases) => Tick(phases, t) = None
    /\ \A t1 \in Times : \A t2 \in Times :
          t1 < t2 /\ Tick(phases, t1) = None => Tick(phases, t2) = None

\* C9 as stated: tick returns the answer of the first phase whose interval
\* contains the elapsed time, and at an instant that adjacent phases i and
\* i+1 share the answer is phase i's.
C9_SharedInstantIsEarlierPhases ==
    \A i \in 1..(Len(phases) - 1) :
        LET t == phases[i + 1].start_time
        IN  (t \in Times /\ Covers(phases[i], t) /\ Covers(phases[i + 1], t))
            => Tick(phases, t) = Answer(phases[i], t)

\* C9 as amended: tick returns None when no phase's interval contains the
\* elapsed time and otherwise the answer of the first phase, in construction
\* order, whose interval does; at an instant that adjacent phases i and i+1
\* share the answer is phase i's when every phase up to i has a positive
\* duration, and in any case that of phase i or of a phase before it.
C9_FirstMatchWins ==
    /\ \A t \in Times :
          LET covering == {i \in 1..Len(phases) : Covers(phases[i], t)}
          IN  IF covering = {}
              THEN Tick(phases, t) = None
              ELSE \E j \in covering :
                      /\ \A k \in covering : j <= k
                      /\ Tick(phases, t) = Answer(phases[j], t)
    /\ \A i \in 1..(Len(phases) - 1) :
          LET t == phases[i + 1].start_time
          IN  (t \in Times /\ Covers(phases[i], t) /\ Covers(phases[i + 1], t))
              => /\ \E j \in 1..i : /\ Covers(phases[j], t)
                                    /\ Tick(phases, t) = Answer(phases[j], t)
                 /\ (\A j \in 1..i : phases[j].duration > 0)
                    => Tick(phases, t) = Answer(phases[i], t)

\* C9's case: the driver ticked at an instant two adjacent phases share and
\* got the earlier phase's answer, which is not the later phase's.
C9_Witness ==
    \E i \in 1..(Len(phases) - 1) :
        /\ run_time = phases[i + 1].start_time
        /\ Covers(phases[i], run_time)
        /\ Covers(phases[i + 1], run_time)
        /\ last_tick = Answer(phases[i], run_time)
        /\ last_tick # Answer(phases[i + 1], run_time)

\* C10: the first phase starts at 0, every later phase starts where the
\* phase before it ends, and current_time is where the last phase ends.
C10_PhasesAreContiguous ==
    /\ Len(phases) > 0 => phases[1].start_time = 0
    /\ \A i \in 1..(Len(phases) - 1) :
          phases[i + 1].start_time
              = phases[i].start_time + phases[i].duration
    /\ current_time = LastEnd(phases)

\* C10's case: a profile of three phases made by three different
\* directives.
C10_Witness ==
    /\ Len(phases) = 3
    /\ phases[1].spawn_rate # phases[2].spawn_rate
    /\ phases[2].spawn_rate # phases[3].spawn_rate
    /\ phases[1].spawn_rate # phases[3].spawn_rate
    /\ current_time > 0

-----------------------------------------------------------------------------
(* The load shape: claims C11 to C15. *)

\* c * x for an int c, exactly
ExactScale(c, x) ==
    [neg |-> x.neg # (c < 0), m |-> MulSmall(x.m, Abs(c)), e |-> x.e]

\* n / d truncated toward zero, for exact numbers n and d > 0
ExactQuotient(n, d) ==
    LET e == Min(n.e, d.e)
        q == BigDivMod(ShiftLeft(n.m, n.e - e), ShiftLeft(d.m, d.e - e))[1]
    IN  IF n.neg THEN 0 - IntOf(q) ELSE IntOf(q)

\* the count of the phase at t by the formula
\* user_start + (user_end - user_start) * (t - start_time) / duration,
\* in exact arithmetic, truncated toward zero
Reference(phase, t) ==
    IF \/ FloatLess(t, phase.start_time)
       \/ FloatLess(ExactAdd(phase.start_time, phase.duration), t)
    THEN None
    ELSE IF phase.duration = Zero
         THEN Some(phase.user_end)
         ELSE Some(ExactQuotient(
                  ExactAdd(ExactScale(phase.user_start, phase.duration),
                           ExactScale(phase.user_end - phase.user_start,
                                      ExactAdd(t, FloatNeg(phase.start_time)))),
                  phase.duration))

\* C11: for every phase and every time t, user_count_at(t) is what the
\* reference gives: None iff t < start_time or t > start_time + duration,
\* user_end when the duration is 0, and otherwise
\* user_start + (user_end - user_start) * (t - start_time) / duration
\* truncated toward zero, for rising and falling ramps alike.
C11_CountIsTheReference ==
    \A i \in 1..Len(phases) : \A t \in RunTimes :
        Phase_user_count_at(phases[i], t) = Reference(phases[i], t)

\* C12: a phase appended by ramp_up or stress_ramp with a duration d > 0
\* counts user_start at its start_time and user_end at start_time + d.
C12_RampBoundariesAreExact ==
    [][(\/ \E call \in RampUpCalls : CallRampUp(call[1], call[2])
        \/ CallStressRamp(STRESS_START_USERS, STRESS_END_USERS,
                          STRESS_DURATION))
       => LET phase == phases'[Len(phases')]
          IN  /\ Phase_user_count_at(phase, phase.start_time)
                    = Some(phase.user_start)
              /\ Phase_user_count_at(phase, FloatAdd(phase.start_time,
                                                     phase.duration))
                    = Some(phase.user_end)]_vars

\* C13: on the profile CustomLoadShape builds,
\* spike(10).ramp_up(20, 10).steady_users(5, 5).stress_ramp(5, 15, 10), tick
\* at the elapsed time 0 returns 10 users with the spawn_rate of the spike
\* phase, and tick at the elapsed time 5, in the middle of the ramp, returns
\* a user count strictly between 10 and 20.
C13_CustomProfileSamples ==
    phases = CustomFactory.phases
    => /\ TickLoop(phases, 1, Float(0))
             = [user_count |-> INITIAL_SPIKE_USERS,
                spawn_rate |-> phases[1].spawn_rate]
       /\ TickLoop(phases, 1, Float(5)) # None
       /\ TickLoop(phases, 1, Float(5)).user_count > INITIAL_SPIKE_USERS
       /\ TickLoop(phases, 1, Float(5)).user_count < RAMP_UP_USERS

\* C13's case: CustomLoadShape has built its profile and the driver ticks in
\* the middle of the ramp, where it gets 14 users at the ramp's spawn_rate.
C13_Witness ==
    /\ profile = SelfPhases
    /\ phases = CustomFactory.phases
    /\ Len(phases) = 4
    /\ run_time = Float(5)
    /\ last_tick # None
    /\ last_tick.user_count = 14
    /\ last_tick.spawn_rate = phases[2].spawn_rate

\* C14: the sequence build() has returned is never changed afterwards,
\* neither in length nor in content, whatever is called on the factory or
\* on the shape.
C14_BuiltProfileIsFrozen ==
    [][profile # None => Content(profile)' = Content(profile)]_vars

\* C15: ramp_up(to_users, duration) with duration <= 0 is rejected with an
\* InvalidPhaseError at the call: no phase is appended and the cursor is
\* not moved, whatever the factory held before.
C15_NonPositiveRampIsRejected ==
    [][\A duration \in BuilderDurations :
          (duration <= 0 /\ CallRampUp(RAMP_UP_USERS, duration))
          => /\ factory_raised' = Exception("InvalidPhaseError")
             /\ UNCHANGED <<phases, current_time>>]_vars

-----------------------------------------------------------------------------
(* The retry policy, the validator and the returned payload: claims C16 to  *)
(* C20.                                                                      *)

\* C16: a retry policy with max_attempts < 1 fails fast when it is created
\* or set on the builder, so that no sendRequest ever performs an attempt
\* under a policy whose max_attempts is below 1.
C16_NoAttemptUnderEmptyPolicy ==
    \A u \in Users :
        HasPolicy(u) /\ retry_config[u].max_attempts < 1 => calls[u] = 0

\* the conjunction of the outcomes recorded in cs
Conjunction(cs) == \A i \in 1..Len(cs) : cs[i][2]

\* C17: validate() returns the conjunction of all outcomes recorded so far:
\* true iff no recorded outcome is false, true when none was recorded; and
\* validate() itself records nothing.
C17_ValidateIsTheConjunction ==
    [][validate
       => /\ validated' = Some(Conjunction(checks))
          /\ (checks = <<>> => validated' = Some(TRUE))
          /\ checks' = checks]_vars

\* C17's case: after a chain of predicates of which one passed and a later
\* one failed, validate() returned false.
C17_Witness ==
    /\ validated = Some(FALSE)
    /\ Len(checks) >= 2
    /\ checks[1][2]
    /\ ~ checks[2][2]

\* the decoded body of the validator's response, None when it does not parse
Body == json(validator_response.text)

\* the body is a mapping that has key
HasKey(key) ==
    /\ Body # None
    /\ Body.type = "dict"
    /\ key \in DOMAIN Body.items

\* every key of schema is in the body with an equal value
IsPartOfBody(schema) ==
    \A i \in 1..Len(schema) :
        /\ HasKey(schema[i][1])
        /\ Body.items[schema[i][1]] = schema[i][2]

\* C18: json_matches(partial) records true iff every key of partial is in
\* the response body with an equal value, extra keys of the body being
\* ignored; json_contains(key) records true iff the body parses and has the
\* key, and records false without an error when the body does not parse.
C18_JsonPredicatesMatchTheBody ==
    [][/\ \A schema \in Schemas :
             json_matches(schema)
             => (checks' = Append(checks, <<"json_schema", TRUE>>)
                    <=> IsPartOfBody(schema))
       /\ \A key \in KeyArguments :
             json_contains(key)
             => /\ checks' = Append(checks, <<"json_key", TRUE>>)
                      <=> HasKey(key)
                /\ Body = None
                   => /\ checks' = Append(checks, <<"json_key", FALSE>>)
                      /\ validator_raised' = None]_vars

\* C19: every sendRequest that returns yields the decoded payload of the
\* response or the wrapper {raw_response: text}: whatever the status, a body
\* that is not structured data gives the wrapper and a structured body its
\* decoded content.
C19_ResultIsPayloadOrRawText ==
    \A u \in Users :
        pc[u] = "returned"
        => IF json(last[u].text) = None
           THEN result[u] = Dict("raw_response", last[u].text)
           ELSE result[u] = json(last[u].text)

\* C20: when an attempt returns the expected status, sendRequest returns
\* that attempt's decoded payload at once, with no wait and no further
\* attempt, whatever the retry policy and whatever the payload holds, a
\* status_code field included.
C20_ExpectedStatusReturnsAtOnce ==
    \A u \in Users :
        LastKind(u) = "expected"
        => /\ pc[u] = "returned"
           /\ result[u] = make_request(last[u]).value

-----------------------------------------------------------------------------
(* Retries, termination, profiles and the builders: claims C21 to C27. *)

\* C21: a wait followed by another attempt happens only after an attempt
\* that returned a retryable status or failed with a transport-level
\* exception; in particular an exception raised by a check function run on a
\* response with the expected status causes no wait and no re-attempt.
C21_RetryOnlyOnRetryableFailure ==
    \A u \in Users :
        pc[u] = "sleep" => LastKind(u) \in {"retryable", "exception"}

\* the most attempts a request makes under its policy
AttemptBound(u) ==
    IF HasPolicy(u) /\ retry_config[u].max_attempts >= 1
    THEN retry_config[u].max_attempts + 1
    ELSE 1

\* u's sendRequest is in its loop
InLoop(u) == pc[u] \in {"call", "inflight", "sleep"}

\* C22: every sendRequest terminates: whatever the policy and whatever the
\* transport does at each attempt, the loop returns or raises in the end,
\* and the number of attempts it makes is bounded by a function of
\* max_attempts (max_attempts + 1, and 1 without a policy or with
\* max_attempts < 1).
C22_SendRequestTerminates ==
    /\ [](\A u \in Users : calls[u] <= AttemptBound(u))
    /\ \A u \in Users : InLoop(u) ~> Finished(u)

\* C22's case: a request that went through the most attempts its policy
\* allows, with outcomes of different kinds, and is over.
C22_Witness ==
    \E u \in Users :
        /\ HasPolicy(u)
        /\ retry_config[u].max_attempts >= 2
        /\ calls[u] = retry_config[u].max_attempts + 1
        /\ only[u] = "mixed"
        /\ Finished(u)

\* C23: a profile built from directives with positive durations has no gap:
\* at every elapsed time t with 0 <= t <= end of the last phase, tick
\* returns a pair (user count, spawn_rate) and not None.
C23_NoGapBeforeTheEnd ==
    (/\ Len(phases) > 0
     /\ \A i \in 1..Len(phases) : phases[i].duration > 0)
    => \A t \in Times :
          t <= LastEnd(phases) => Tick(phases, t) # None

\* C23's case: on a profile of three phases with positive durations the
\* driver ticked at the very end of the last phase and got a pair.
C23_Witness ==
    /\ Len(phases) = 3
    /\ \A i \in 1..Len(phases) : phases[i].duration > 0
    /\ run_time = LastEnd(phases)
    /\ last_tick # None
    /\ last_tick.spawn_rate = phases[3].spawn_rate
    /\ last_tick.spawn_rate # phases[2].spawn_rate

\* C24 as stated: spike(users) appends a phase of duration 0 whose
\* user_start and user_end both equal users, and advances the cursor by a
\* fixed amount greater than 0.
C24_SpikeIsInstant ==
    [][CallSpike(INITIAL_SPIKE_USERS)
       => LET phase == phases'[Len(phases')]
          IN  /\ Len(phases') = Len(phases) + 1
              /\ phase.duration = Zero
              /\ phase.user_start = INITIAL_SPIKE_USERS
              /\ phase.user_end = INITIAL_SPIKE_USERS
              /\ FloatLess(current_time, current_time')]_vars

\* C24 as amended: spike(users) appends, after the phases there are, a phase
\* that starts at the cursor and lasts 0.1 s, whose user_start and user_end
\* both equal users, and advances the cursor by the same 0.1 s.
C24_SpikeLastsATenth ==
    [][CallSpike(INITIAL_SPIKE_USERS)
       => LET phase == phases'[Len(phases')]
          IN  /\ Len(phases') = Len(phases) + 1
              /\ SubSeq(phases', 1, Len(phases)) = phases
              /\ phase.start_time = current_time
              /\ phase.duration = Tenth
              /\ FloatLess(Zero, phase.duration)
              /\ phase.user_start = INITIAL_SPIKE_USERS
              /\ phase.user_end = INITIAL_SPIKE_USERS
              /\ current_time' = FloatAdd(current_time, Tenth)]_vars

\* C24's case: a spike was appended after another phase, away from time 0.
C24_Witness ==
    /\ Len(phases) >= 2
    /\ phases[Len(phases)].spawn_rate = Float(INITIAL_SPIKE_USERS)
    /\ phases[Len(phases)].user_start = INITIAL_SPIKE_USERS
    /\ phases[Len(phases)].user_end = INITIAL_SPIKE_USERS
    /\ phases[Len(phases)].start_time # Zero
    /\ current_time = FloatAdd(phases[Len(phases)].start_time, Tenth)

\* C25: ramp_up(to_users, d) appends a phase whose user_start is the
\* user_end of the phase appended just before it, or 0 when it is the first
\* phase; stress_ramp(from_users, to_users, d) appends a phase whose
\* user_start is its from_users whatever the phase before it is.
C25_RampStartsWhereThePreviousEnds ==
    [][/\ \A duration \in BuilderDurations :
             (CallRampUp(RAMP_UP_USERS, duration) /\ factory_raised' = None)
             => LET phase == phases'[Len(phases')]
                IN  /\ Len(phases') = Len(phases) + 1
                    /\ phase.user_end = RAMP_UP_USERS
                    /\ phase.user_start
                          = IF phases = <<>> THEN 0
                            ELSE phases[Len(phases)].user_end
       /\ \A duration \in BuilderDurations :
             (/\ CallStressRamp(STRESS_START_USERS, STRESS_END_USERS,
                                duration)
              /\ factory_raised' = None)
             => LET phase == phases'[Len(phases')]
                IN  /\ Len(phases') = Len(phases) + 1
                    /\ phase.user_start = STRESS_START_USERS
                    /\ phase.user_end = STRESS_END_USERS]_vars

\* C25's case: a ramp_up that followed a spike starts from the spike's
\* users, and a stress_ramp that follows it starts from its own from_users,
\* which is not where the ramp ended.
C25_Witness ==
    /\ Len(phases) = 3
    /\ phases[1].user_end = INITIAL_SPIKE_USERS
    /\ phases[2].user_start = INITIAL_SPIKE_USERS
    /\ phases[2].user_end = RAMP_UP_USERS
    /\ phases[3].user_start = STRESS_START_USERS
    /\ phases[3].user_end = STRESS_END_USERS
    /\ phases[3].user_start # phases[2].user_end

\* a call of one of the four predicates of the validator
PredicateCall ==
    \/ \E status \in StatusArguments : status_is(status)
    \/ \E header \in HeaderArguments : has_header(header)
    \/ \E key \in KeyArguments : json_contains(key)
    \/ \E schema \in Schemas : json_matches(schema)

\* C26: each call of status_is, has_header, json_contains or json_matches
\* appends exactly one outcome after those recorded before, which it leaves
\* as they were, and returns the validator, also when json_matches stops at
\* its first mismatching key; so n calls record n outcomes in call order.
C26_EachPredicateRecordsOnce ==
    [][PredicateCall
       => /\ Len(checks') = Len(checks) + 1
          /\ SubSeq(checks', 1, Len(checks)) = checks
          /\ validator_raised' = None
          /\ validator_response' = validator_response]_vars

\* the query parameters of u's builder, none when it is None
QueryParams(u) ==
    IF query_params[u] = None THEN <<>> ELSE query_params[u].some

\* every item of before whose key is not among keys is an item of after
KeptBut(before, after, keys) ==
    \A i \in DOMAIN before :
        before[i][1] \notin keys
        => \E j \in DOMAIN after : after[j] = before[i]

\* C27: addQueryParams(params) adds the given parameters to the request's
\* query parameters: every parameter set earlier with addQueryParam or
\* addQueryParams under a key not in params stays, in any order of the two
\* setters, and is part of the query string sendRequest sends.
C27_AddQueryParamsKeepsEarlier ==
    [][\A u \in Users :
          /\ \A params \in ParamDicts :
                addQueryParams(u, params)
                => KeptBut(QueryParams(u), QueryParams(u)',
                           {params[i][1] : i \in DOMAIN params})
          /\ \A key \in ParamKeys, value \in ParamValues :
                addQueryParam(u, key, value)
                => KeptBut(QueryParams(u), QueryParams(u)', {key})
          /\ sendRequest(u)
             => /\ query_string'[u] # None
                /\ \A i \in DOMAIN QueryParams(u) :
                      \E j \in DOMAIN query_string'[u].some :
                          query_string'[u].some[j]
                              = <<QueryParams(u)[i][1],
                                  str(QueryParams(u)[i][2])>>]_vars

====
